---- MODULE Spec2Model ----
(***************************************************************************)
(* A model of leptjson (src/leptjson.c): the recursive-descent JSON        *)
(* parser, its scratch stack (lept_context), the value model (lept_value)  *)
(* and the heap blocks the values own.                                     *)
(*                                                                         *)
(* A text is a sequence of byte codes; the terminating NUL is the byte     *)
(* read one position past the end.  Pointers into the text are 1-based     *)
(* indices, pointers into the scratch stack are 0-based byte offsets, and  *)
(* heap pointers are block numbers (0 is NULL).                            *)
(***************************************************************************)
EXTENDS Integers, Sequences, FiniteSets, TLC

\* ------------------------------------------------------------------ bytes

\* The byte code of each character the parser names, or the texts use.
Ord ==
  [ch \in {"TAB", "LF", "CR", "SOH"} |->
      CASE ch = "TAB" -> 9 [] ch = "LF" -> 10 [] ch = "CR" -> 13 [] OTHER -> 1]
  @@ (" " :> 32) @@ ("\"" :> 34) @@ ("+" :> 43) @@ ("," :> 44) @@ ("-" :> 45)
  @@ ("." :> 46) @@ ("/" :> 47)
  @@ ("0" :> 48) @@ ("1" :> 49) @@ ("2" :> 50) @@ ("3" :> 51) @@ ("4" :> 52)
  @@ ("5" :> 53) @@ ("6" :> 54) @@ ("7" :> 55) @@ ("8" :> 56) @@ ("9" :> 57)
  @@ ("?" :> 63)
  @@ ("A" :> 65) @@ ("B" :> 66) @@ ("C" :> 67) @@ ("D" :> 68) @@ ("E" :> 69)
  @@ ("F" :> 70) @@ ("G" :> 71)
  @@ ("[" :> 91) @@ ("\\" :> 92) @@ ("]" :> 93)
  @@ ("a" :> 97) @@ ("b" :> 98) @@ ("c" :> 99) @@ ("d" :> 100) @@ ("e" :> 101)
  @@ ("f" :> 102) @@ ("l" :> 108) @@ ("n" :> 110) @@ ("r" :> 114)
  @@ ("s" :> 115) @@ ("t" :> 116) @@ ("u" :> 117) @@ ("v" :> 118)
  @@ ("x" :> 120)

\* 'c' of the C source.
C(ch) == Ord[ch]

\* A C string literal, written as a tuple of one-character names.
Str(names) == [i \in 1..Len(names) |-> Ord[names[i]]]

\* The terminating NUL of every text.
NUL == 0

\* *p for a pointer p into the text: the NUL terminator one past the end.
\* The parser never reads further; -1 stands for a byte outside the text.
At(text, p) ==
  IF p >= 1 /\ p <= Len(text) THEN text[p]
  ELSE IF p = Len(text) + 1 THEN NUL
  ELSE -1

\* ------------------------------------------------------------------ types

LEPT_NULL == "LEPT_NULL"
LEPT_FALSE == "LEPT_FALSE"
LEPT_TRUE == "LEPT_TRUE"
LEPT_NUMBER == "LEPT_NUMBER"
LEPT_STRING == "LEPT_STRING"
LEPT_ARRAY == "LEPT_ARRAY"
LEPT_OBJECT == "LEPT_OBJECT"

LEPT_PARSE_OK == "LEPT_PARSE_OK"
LEPT_PARSE_EXPECT_VALUE == "LEPT_PARSE_EXPECT_VALUE"
LEPT_PARSE_INVALID_VALUE == "LEPT_PARSE_INVALID_VALUE"
LEPT_PARSE_NUMBER_TOO_BIG == "LEPT_PARSE_NUMBER_TOO_BIG"
LEPT_PARSE_MISS_QUOTATION_MARK == "LEPT_PARSE_MISS_QUOTATION_MARK"
LEPT_PARSE_ROOT_NOT_SINGULAR == "LEPT_PARSE_ROOT_NOT_SINGULAR"
LEPT_PARSE_INVALID_STRING_ESCAPE == "LEPT_PARSE_INVALID_STRING_ESCAPE"
LEPT_PARSE_INVALID_UNICODE_HEX == "LEPT_PARSE_INVALID_UNICODE_HEX"
LEPT_PARSE_INVALID_UNICODE_SURROGATE == "LEPT_PARSE_INVALID_UNICODE_SURROGATE"
LEPT_PARSE_INVALID_STRING_CHAR == "LEPT_PARSE_INVALID_STRING_CHAR"
LEPT_PARSE_MISS_COMMA_OR_SQUARE_BRACKET == "LEPT_PARSE_MISS_COMMA_OR_SQUARE_BRACKET"

\* A lept_value: the type tag and the union u.  u.n is the number; p is the
\* pointer u.s.s / u.a.e (a heap block number, 0 for NULL) and len is
\* u.s.len / u.a.size, which share their storage in the union.  A field the
\* type tag does not select is never read by the code; it keeps whatever
\* it held.
NoNumber == [neg |-> FALSE, m |-> 0, e |-> 0]
Value(type, n, p, len) == [type |-> type, n |-> n, p |-> p, len |-> len]

\* lept_init(v): only the type tag is written.
lept_init(v) == [v EXCEPT !.type = LEPT_NULL]

\* A lept_value object before anything was stored in it.
FreshValue == Value(LEPT_NULL, NoNumber, 0, 0)

\* sizeof(lept_value): a 16-byte union and the type tag, padded to 8.
SizeofValue == 24

\* ------------------------------------------------------------------ heap

\* The heap is the sequence of blocks malloc has returned so far.  A block
\* records its content and how many times free was called on it: 0 while
\* it is allocated, 1 once released, 2 when released again.
malloc(heap, kind, data) == Append(heap, [kind |-> kind, data |-> data, frees |-> 0])

free(heap, p) ==
  IF p = 0 THEN heap
  ELSE [heap EXCEPT ![p].frees = IF @ >= 2 THEN 2 ELSE @ + 1]

\* ------------------------------------------------------------------ context

\* LEPT_PARSE_STACK_INIT_SIZE
LEPT_PARSE_STACK_INIT_SIZE == 256

\* A lept_context: the text and the cursor json into it, the scratch stack
\* (its bytes, its capacity size and its used length top).  stack holds one
\* cell per byte written so far; a staged lept_value is its record in the
\* first cell and "pad" in the other SizeofValue - 1.  The context record
\* also carries the heap the parse allocates from, and three observations of
\* the run: asserts (no assert of the parser has failed), balanced (every
\* string and array parse so far returned with top as it found it) and hw
\* (the largest top so far).
Context(text) ==
  [text |-> text, json |-> 1, stack |-> << >>, size |-> 0, top |-> 0,
   heap |-> << >>, asserts |-> TRUE, balanced |-> TRUE, hw |-> 0]

\* *c->json and c->json[i]
Cur(c) == At(c.text, c.json)

\* The result of a parse function: the context and the value as it leaves
\* them, and the status it returns.
Result(c, v, ret) == [c |-> c, v |-> v, ret |-> ret]

\* The growth with an if in the place of the while: one step at most.
GrowSize_Once(size, need) ==
  IF need >= size THEN size + (size \div 2) ELSE size

RECURSIVE GrowSize(_, _)
\* while (c->top + size >= c->size) c->size += c->size >> 1;
GrowSize(size, need) ==
  IF need >= size THEN GrowSize(size + (size \div 2), need) ELSE size

\* lept_context_push(c, size): the region returned starts at the old c.top.
lept_context_push(c, size) ==
  LET newsize == IF c.top + size >= c.size
                 THEN GrowSize(IF c.size = 0 THEN LEPT_PARSE_STACK_INIT_SIZE
                               ELSE c.size, c.top + size)
                 ELSE c.size
  IN [c EXCEPT !.asserts = @ /\ size > 0,
               !.size = newsize,
               !.top = c.top + size,
               !.hw = IF c.top + size > @ THEN c.top + size ELSE @]

\* lept_context_pop(c, size): the region returned starts at the new c.top.
\* A failed assert stops the program: top is left as it was.
lept_context_pop(c, size) ==
  IF c.top >= size
  THEN [c EXCEPT !.top = c.top - size]
  ELSE [c EXCEPT !.asserts = FALSE]

\* memcpy(c->stack + at, cells, Len(cells))
Poke(stack, at, cells) ==
  LET n == Len(cells)
      hi == IF at + n > Len(stack) THEN at + n ELSE Len(stack)
  IN [i \in 1..hi |->
        IF i > at /\ i <= at + n THEN cells[i - at]
        ELSE IF i <= Len(stack) THEN stack[i]
        ELSE "uninit"]

\* PUTC(c, ch)
PUTC(c, ch) ==
  [lept_context_push(c, 1) EXCEPT !.stack = Poke(@, c.top, <<ch>>)]

\* The len bytes of the stack from offset at.
Peek(stack, at, len) == [i \in 1..len |-> stack[at + i]]

\* EXPECT(c, ch)
EXPECT(c, ch) == [c EXCEPT !.asserts = @ /\ Cur(c) = ch, !.json = @ + 1]

\* ------------------------------------------------------------------ whitespace

\* lept_parse_whitespace skipping spaces only.
IsWhitespace_SpaceOnly(ch) == ch = C(" ")

IsWhitespace(ch) == ch = C(" ") \/ ch = C("TAB") \/ ch = C("LF") \/ ch = C("CR")

RECURSIVE SkipWhitespace(_, _)
SkipWhitespace(text, p) ==
  IF IsWhitespace(At(text, p)) THEN SkipWhitespace(text, p + 1) ELSE p

lept_parse_whitespace(c) == [c EXCEPT !.json = SkipWhitespace(c.text, c.json)]

\* ------------------------------------------------------------------ literals

RECURSIVE LiteralScan(_, _, _)
\* for (i = 0; literal[i + 1]; i++) if (c->json[i] != literal[i + 1]) return ...
\* The index of the first mismatch, or -1 when the loop runs to the end.
LiteralScan(c, literal, i) ==
  IF i + 1 >= Len(literal) THEN -1
  ELSE IF At(c.text, c.json + i) # literal[i + 2] THEN i
  ELSE LiteralScan(c, literal, i + 1)

\* lept_parse_literal with v->type = type done before the loop.
LiteralExpected_TypeFirst(c, v, literal, type) ==
  IF LiteralScan(c, literal, 0) # -1
  THEN Result(c, [v EXCEPT !.type = type], LEPT_PARSE_INVALID_VALUE)
  ELSE Result([c EXCEPT !.json = @ + (Len(literal) - 1)],
              [v EXCEPT !.type = type], LEPT_PARSE_OK)

\* lept_parse_literal after EXPECT(c, literal[0])
LiteralExpected(c, v, literal, type) ==
  IF LiteralScan(c, literal, 0) # -1
  THEN Result(c, v, LEPT_PARSE_INVALID_VALUE)
  ELSE Result([c EXCEPT !.json = @ + (Len(literal) - 1)],
              [v EXCEPT !.type = type], LEPT_PARSE_OK)

\* lept_parse_literal(c, v, literal, type)
lept_parse_literal(c, v, literal, type) ==
  LiteralExpected(EXPECT(c, literal[1]), v, literal, type)

\* ------------------------------------------------------------------ numbers

ISDIGIT(ch) == ch >= C("0") /\ ch <= C("9")
ISDIGIT1TO9(ch) == ch >= C("1") /\ ch <= C("9")

RECURSIVE SkipDigits(_, _)
\* for (; ISDIGIT(*p); p++);
SkipDigits(text, p) == IF ISDIGIT(At(text, p)) THEN SkipDigits(text, p + 1) ELSE p

RECURSIVE DigitsValue(_, _, _, _)
\* The decimal value of the digits text[p..q-1], appended to acc.
DigitsValue(text, p, q, acc) ==
  IF p >= q THEN acc
  ELSE DigitsValue(text, p + 1, q, acc * 10 + (text[p] - C("0")))

RECURSIVE Normal(_, _)
\* m * 10^e with the trailing zeros of m moved into e; zero is 0 * 10^0.
Normal(m, e) ==
  IF m = 0 THEN [m |-> 0, e |-> 0]
  ELSE IF m % 10 = 0 THEN Normal(m \div 10, e + 1)
  ELSE [m |-> m, e |-> e]

RECURSIVE NumDigits(_)
NumDigits(m) == IF m < 10 THEN 1 ELSE 1 + NumDigits(m \div 10)

RECURSIVE Lead2(_)
\* The two leading decimal digits of m (m >= 1), 10..99.
Lead2(m) == IF m < 10 THEN m * 10 ELSE IF m < 100 THEN m ELSE Lead2(m \div 10)

\* The largest decimal exponent of a finite double: DBL_MAX is 1.797...e308.
DBL_MAX_10_EXP == 308

\* strtod(text + p, NULL) for a text that starts, at p, with an optional '-'
\* and a digit (the only texts the parser hands it).  strtod follows its own
\* grammar from p on, not the span the parser matched: it takes every digit
\* of the integer part, a '.' with any digits, and an exponent when at least
\* one digit follows the marker.  The double is kept as sign, decimal
\* mantissa and decimal exponent; range is decided to two leading digits
\* (1.7e308 is finite, 1.8e308 is not).  Hexadecimal floats need a 'p'
\* exponent to leave the range and are not modelled.

\* What strtod has scanned so far: the sign, the digits as an integer, how
\* many of them follow the point, the decimal exponent, and the next byte.
Scanned(neg, m, nfrac, ex, p) ==
  [neg |-> neg, m |-> m, nfrac |-> nfrac, ex |-> ex, p |-> p]

StrtodSign(text, p) ==
  IF At(text, p) = C("-") THEN Scanned(TRUE, 0, 0, 0, p + 1)
  ELSE Scanned(FALSE, 0, 0, 0, p)

StrtodIntDigits(text, s, q) ==
  Scanned(s.neg, DigitsValue(text, s.p, q, 0), 0, 0, q)

StrtodInt(text, s) == StrtodIntDigits(text, s, SkipDigits(text, s.p))

StrtodFracDigits(text, s, q) ==
  Scanned(s.neg, DigitsValue(text, s.p + 1, q, s.m), q - (s.p + 1), 0, q)

StrtodFrac(text, s) ==
  IF At(text, s.p) = C(".")
  THEN StrtodFracDigits(text, s, SkipDigits(text, s.p + 1))
  ELSE s

StrtodExpDigits(text, s, neg, p, q) ==
  IF q = p THEN s
  ELSE Scanned(s.neg, s.m, s.nfrac,
               IF neg THEN 0 - DigitsValue(text, p, q, 0)
               ELSE DigitsValue(text, p, q, 0),
               q)

StrtodExpSign(text, s, neg, p) ==
  StrtodExpDigits(text, s, neg, p, SkipDigits(text, p))

StrtodExp(text, s) ==
  IF At(text, s.p) = C("e") \/ At(text, s.p) = C("E")
  THEN IF At(text, s.p + 1) = C("-") THEN StrtodExpSign(text, s, TRUE, s.p + 2)
       ELSE IF At(text, s.p + 1) = C("+") THEN StrtodExpSign(text, s, FALSE, s.p + 2)
       ELSE StrtodExpSign(text, s, FALSE, s.p + 1)
  ELSE s

\* errno == ERANGE with HUGE_VAL: the magnitude m * 10^e is above DBL_MAX.
IsHuge(nm) ==
  /\ nm.m # 0
  /\ \/ NumDigits(nm.m) + nm.e - 1 > DBL_MAX_10_EXP
     \/ NumDigits(nm.m) + nm.e - 1 = DBL_MAX_10_EXP /\ Lead2(nm.m) >= 18

StrtodValue(s, nm) ==
  [n |-> [neg |-> s.neg, m |-> nm.m, e |-> nm.e], huge |-> IsHuge(nm), end |-> s.p]

StrtodResult(s) == StrtodValue(s, Normal(s.m, s.ex - s.nfrac))

strtod(text, p) ==
  StrtodResult(StrtodExp(text, StrtodFrac(text, StrtodInt(text, StrtodSign(text, p)))))

\* lept_parse_number, the validation pass, one part of the number at a
\* time.  Each takes the pointer p the part starts at and gives the pointer
\* after it, or 0 for `return LEPT_PARSE_INVALID_VALUE`.

\* if (*p == '-') p++;
MatchSign(text, p) == IF At(text, p) = C("-") THEN p + 1 ELSE p

\* The integer part with a 0 before a digit refused.
MatchInt_RefuseLeadingZero(text, p) ==
  IF At(text, p) = C("0") THEN (IF ISDIGIT(At(text, p + 1)) THEN 0 ELSE p + 1)
  ELSE IF ~ISDIGIT1TO9(At(text, p)) THEN 0
  ELSE SkipDigits(text, p + 1)

\* if (*p == '0') p++; else { if (!ISDIGIT1TO9(*p)) return ...; for (p++; ISDIGIT(*p); p++); }
MatchInt(text, p) ==
  IF At(text, p) = C("0") THEN p + 1
  ELSE IF ~ISDIGIT1TO9(At(text, p)) THEN 0
  ELSE SkipDigits(text, p + 1)

\* if (*p == '.') { p++; if (!ISDIGIT(*p)) return ...; for (p++; ISDIGIT(*p); p++); }
MatchFrac(text, p) ==
  IF p = 0 THEN 0
  ELSE IF At(text, p) # C(".") THEN p
  ELSE IF ~ISDIGIT(At(text, p + 1)) THEN 0
  ELSE SkipDigits(text, p + 2)

\* The exponent digits with the test for a first digit left out.
MatchExpDigits_NoTest(text, p) == SkipDigits(text, p)

\* if (*p == '+' || *p == '-') p++; if (!ISDIGIT(*p)) return ...; for (p++; ISDIGIT(*p); p++);
MatchExpDigits(text, p) ==
  IF ~ISDIGIT(At(text, p)) THEN 0 ELSE SkipDigits(text, p + 1)

\* if (*p == 'e' || *p == 'E') { p++; ... }
MatchExp(text, p) ==
  IF p = 0 THEN 0
  ELSE IF ~(At(text, p) = C("e") \/ At(text, p) = C("E")) THEN p
  ELSE IF At(text, p + 1) = C("+") \/ At(text, p + 1) = C("-")
  THEN MatchExpDigits(text, p + 2)
  ELSE MatchExpDigits(text, p + 1)

\* The pointer after the longest match of the number grammar, or 0.
NumberMatch(text, json) ==
  MatchExp(text, MatchFrac(text, MatchInt(text, MatchSign(text, json))))

\* The end of lept_parse_number, from errno = 0 on: d is what strtod gave
\* and p the end of the match.
NumberConvert(c, v, p, d) ==
  IF d.huge THEN Result(c, [v EXCEPT !.n = d.n], LEPT_PARSE_NUMBER_TOO_BIG)
  ELSE Result([c EXCEPT !.json = p], [v EXCEPT !.n = d.n, !.type = LEPT_NUMBER],
              LEPT_PARSE_OK)

NumberMatched(c, v, p) ==
  IF p = 0 THEN Result(c, v, LEPT_PARSE_INVALID_VALUE)
  ELSE NumberConvert(c, v, p, strtod(c.text, c.json))

lept_parse_number(c, v) == NumberMatched(c, v, NumberMatch(c.text, c.json))

\* ------------------------------------------------------------------ values

\* lept_free without v->type = LEPT_NULL.
lept_free_KeepType(v, heap) ==
  [v |-> v, heap |-> IF v.type = LEPT_STRING THEN free(heap, v.p) ELSE heap]

\* lept_free(v): releases the buffer of a String, and nothing else.
lept_free(v, heap) ==
  [v |-> [v EXCEPT !.type = LEPT_NULL],
   heap |-> IF v.type = LEPT_STRING THEN free(heap, v.p) ELSE heap]

\* lept_set_boolean(v, b), after its lept_free gave f
SetBooleanFreed(f, b) ==
  [v |-> [f.v EXCEPT !.type = IF b THEN LEPT_TRUE ELSE LEPT_FALSE], heap |-> f.heap]

lept_set_boolean(v, heap, b) == SetBooleanFreed(lept_free(v, heap), b)

\* lept_set_number(v, n), after its lept_free gave f
SetNumberFreed(f, n) ==
  [v |-> [f.v EXCEPT !.n = n, !.type = LEPT_NUMBER], heap |-> f.heap]

lept_set_number(v, heap, n) == SetNumberFreed(lept_free(v, heap), n)

\* lept_set_string(v, s, len), after its lept_free gave f and its malloc
\* the last block of h: a copy of the bytes s and a NUL.
SetStringBlock(f, h, s) ==
  [v |-> [f.v EXCEPT !.p = Len(h), !.len = Len(s), !.type = LEPT_STRING], heap |-> h]

SetStringFreed(f, s) == SetStringBlock(f, malloc(f.heap, "string", s \o <<NUL>>), s)

lept_set_string(v, heap, s) == SetStringFreed(lept_free(v, heap), s)

lept_get_type(v) == v.type

\* lept_get_array_size(v)
lept_get_array_size(v) == v.len

\* lept_get_array_element(v, index): the element &v->u.a.e[index]
lept_get_array_element(v, heap, index) == heap[v.p].data[index + 1]

\* ------------------------------------------------------------------ strings

\* The value of a hexadecimal digit, or -1.
HexDigit(ch) ==
  IF ch >= C("0") /\ ch <= C("9") THEN ch - C("0")
  ELSE IF ch >= C("A") /\ ch <= C("F") THEN ch - (C("A") - 10)
  ELSE IF ch >= C("a") /\ ch <= C("f") THEN ch - (C("a") - 10)
  ELSE -1

RECURSIVE Hex4Loop(_, _, _, _)
\* for (i = 0; i < 4; i++) { ch = *p++; *u <<= 4; ... else return NULL; }
Hex4Loop(text, p, i, u) ==
  IF i = 4 THEN [p |-> p, u |-> u]
  ELSE IF HexDigit(At(text, p)) = -1 THEN [p |-> 0, u |-> u * 16]
  ELSE Hex4Loop(text, p + 1, i + 1, u * 16 + HexDigit(At(text, p)))

\* lept_parse_hex4(p, &u): the pointer after the digits (0 for NULL) and u.
lept_parse_hex4(text, p) == Hex4Loop(text, p, 0, 0)

RECURSIVE BitOr(_, _)
\* a | b
BitOr(a, b) ==
  IF a = 0 THEN b
  ELSE IF b = 0 THEN a
  ELSE 2 * BitOr(a \div 2, b \div 2) + (IF a % 2 = 1 \/ b % 2 = 1 THEN 1 ELSE 0)

\* PUTC stores its argument converted to char: the low 8 bits.
PutByte(c, x) == PUTC(c, x % 256)

\* lept_encode_utf8(c, u)
lept_encode_utf8(c, u) ==
  IF u <= 127 THEN PutByte(c, u % 256)
  ELSE IF u <= 2047
  THEN PutByte(PutByte(c, BitOr(192, (u \div 64) % 256)), BitOr(128, u % 64))
  ELSE IF u <= 65535
  THEN PutByte(PutByte(PutByte(c, BitOr(224, (u \div 4096) % 256)),
                       BitOr(128, (u \div 64) % 64)),
               BitOr(128, u % 64))
  ELSE LET c0 == [c EXCEPT !.asserts = @ /\ u <= 1114111]
       IN PutByte(PutByte(PutByte(PutByte(c0, BitOr(240, (u \div 262144) % 256)),
                                  BitOr(128, (u \div 4096) % 64)),
                          BitOr(128, (u \div 64) % 64)),
                  BitOr(128, u % 64))

\* STRING_ERROR without c->top = head.
STRING_ERROR_NoRollback(c, v, head, ret) == Result(c, v, ret)

\* STRING_ERROR(ret): do { c->top = head; return ret; } while(0)
STRING_ERROR(c, v, head, ret) == Result([c EXCEPT !.top = head], v, ret)

\* The byte a simple escape stands for, or -1: the cases of switch (*p++)
\* that PUTC one character.
SimpleEscape(ch) ==
  CASE ch = C("\"") -> C("\"")
    [] ch = C("\\") -> C("\\")
    [] ch = C("/") -> C("/")
    [] ch = C("b") -> 8
    [] ch = C("f") -> 12
    [] ch = C("n") -> 10
    [] ch = C("r") -> 13
    [] ch = C("t") -> 9
    [] OTHER -> -1

\* u >= 0xD800 && u <= 0xDBFF
IsHighSurrogate(u) == u >= 55296 /\ u <= 56319

\* !(u2 < 0xDC00 || u2 > 0xDFFF)
IsLowSurrogate(u2) == ~(u2 < 56320 \/ u2 > 57343)

\* The surrogate pair combined without the 0x10000 offset.
SurrogateCodepoint_NoOffset(u, u2) == BitOr((u - 55296) * 1024, u2 - 56320)

\* (((u - 0xD800) << 10) | (u2 - 0xDC00)) + 0x10000
SurrogateCodepoint(u, u2) == BitOr((u - 55296) * 1024, u2 - 56320) + 65536

RECURSIVE StringLoop(_, _, _, _)

\* case '\"', after lept_set_string gave sv
StringSet(c, sv, p) ==
  Result([c EXCEPT !.heap = sv.heap, !.json = p], sv.v, LEPT_PARSE_OK)

\* case '\"', with c the context after lept_context_pop(c, len)
StringPopped(c, v, len, p) ==
  StringSet(c, lept_set_string(v, c.heap, Peek(c.stack, c.top, len)), p)

\* case '\"': the bytes pushed since head become the String.
StringClose(c, v, head, p) ==
  StringPopped(lept_context_pop(c, c.top - head), v, c.top - head, p)

\* case 'u', once the four digits after a high surrogate's "\u" are read
\* into h2 (h2.p = 0 for NULL).
SurrogateLow(c, v, head, u, h2) ==
  IF h2.p = 0
  THEN STRING_ERROR(c, v, head, LEPT_PARSE_INVALID_UNICODE_HEX)
  ELSE IF ~IsLowSurrogate(h2.u)
  THEN STRING_ERROR(c, v, head, LEPT_PARSE_INVALID_UNICODE_SURROGATE)
  ELSE StringLoop(lept_encode_utf8(c, SurrogateCodepoint(u, h2.u)), v, head, h2.p)

\* case 'u', once the four digits are read into h1 (h1.p = 0 for NULL).
UnicodeEscape(c, v, head, h1) ==
  IF h1.p = 0
  THEN STRING_ERROR(c, v, head, LEPT_PARSE_INVALID_UNICODE_HEX)
  ELSE IF IsHighSurrogate(h1.u)
  THEN IF At(c.text, h1.p) # C("\\")
       THEN STRING_ERROR(c, v, head, LEPT_PARSE_INVALID_UNICODE_SURROGATE)
       ELSE IF At(c.text, h1.p + 1) # C("u")
       THEN STRING_ERROR(c, v, head, LEPT_PARSE_INVALID_UNICODE_SURROGATE)
       ELSE SurrogateLow(c, v, head, h1.u, lept_parse_hex4(c.text, h1.p + 2))
  ELSE StringLoop(lept_encode_utf8(c, h1.u), v, head, h1.p)

\* case '\\': switch (*p++), with p the character after the backslash.
Escape(c, v, head, p) ==
  IF SimpleEscape(At(c.text, p)) # -1
  THEN StringLoop(PUTC(c, SimpleEscape(At(c.text, p))), v, head, p + 1)
  ELSE IF At(c.text, p) = C("u")
  THEN UnicodeEscape(c, v, head, lept_parse_hex4(c.text, p + 1))
  ELSE STRING_ERROR(c, v, head, LEPT_PARSE_INVALID_STRING_ESCAPE)

\* The loop testing for a control character before it tests for the end
\* of the text.
StringLoop_CharFirst(c, v, head, p) ==
  IF At(c.text, p) = C("\"") THEN StringClose(c, v, head, p + 1)
  ELSE IF At(c.text, p) = C("\\") THEN Escape(c, v, head, p + 1)
  ELSE IF At(c.text, p) < 32
  THEN STRING_ERROR(c, v, head, LEPT_PARSE_INVALID_STRING_CHAR)
  ELSE StringLoop(PUTC(c, At(c.text, p)), v, head, p + 1)

\* The for (;;) of lept_parse_string, with p the next character to read.
StringLoop(c, v, head, p) ==
  IF At(c.text, p) = C("\"") THEN StringClose(c, v, head, p + 1)
  ELSE IF At(c.text, p) = C("\\") THEN Escape(c, v, head, p + 1)
  ELSE IF At(c.text, p) = NUL
  THEN STRING_ERROR(c, v, head, LEPT_PARSE_MISS_QUOTATION_MARK)
  ELSE IF At(c.text, p) < 32
  THEN STRING_ERROR(c, v, head, LEPT_PARSE_INVALID_STRING_CHAR)
  ELSE StringLoop(PUTC(c, At(c.text, p)), v, head, p + 1)

\* Records, in c.balanced, whether a string or array parse that was entered
\* with the scratch stack at top `entry` leaves it there.
Returned(r, entry) == [r EXCEPT !.c.balanced = @ /\ r.c.top = entry]

\* lept_parse_string(c, v)
lept_parse_string(c, v) ==
  Returned(StringLoop(EXPECT(c, C("\"")), v, c.top, c.json + 1), c.top)

\* ------------------------------------------------------------------ arrays

\* memcpy(mem, &e, sizeof(lept_value)): the bytes of a staged value.
ValueCells(e) == [i \in 1..SizeofValue |-> IF i = 1 THEN e ELSE "pad"]

\* The lept_value at offset at of the stack.
StagedValue(stack, at) == stack[at + 1]

RECURSIVE ArrayFree(_, _)

\* lept_free(p) on the staged value the pop returned: c is the context
\* after the pop and f what lept_free did.
ArrayFreed(c, f, n) ==
  ArrayFree([c EXCEPT !.heap = f.heap, !.stack = Poke(c.stack, c.top, <<f.v>>)], n)

ArrayPopped(c, n) ==
  IF ~c.asserts THEN c
  ELSE ArrayFreed(c, lept_free(StagedValue(c.stack, c.top), c.heap), n)

\* for (i = 0; i < size; i++) lept_free((lept_value *) lept_context_pop(c, sizeof(lept_value)));
ArrayFree(c, n) ==
  IF n = 0 \/ ~c.asserts THEN c
  ELSE ArrayPopped(lept_context_pop(c, SizeofValue), n - 1)

\* The end of lept_parse_array after a break: the staged elements are freed.
ArrayFail(c, v, size, ret) == Result(ArrayFree(c, size), v, ret)

\* v->u.a.e = malloc(size) filled by memcpy, with c the context after the
\* pop and h the heap after the malloc.
ArrayCopied(c, v, size, h) ==
  Result([c EXCEPT !.heap = h],
         [v EXCEPT !.type = LEPT_ARRAY, !.len = size, !.p = Len(h)],
         LEPT_PARSE_OK)

\* The staged values copied last to first.
ArrayElements_Reversed(c, size) ==
  [i \in 1..size |-> StagedValue(c.stack, c.top + (size - i) * SizeofValue)]

\* The size staged values from c.top up.
ArrayElements(c, size) ==
  [i \in 1..size |-> StagedValue(c.stack, c.top + (i - 1) * SizeofValue)]

\* memcpy(v->u.a.e = malloc(size), lept_context_pop(c, size), size)
ArrayCopy(c, v, size) ==
  ArrayCopied(c, v, size, malloc(c.heap, "array", ArrayElements(c, size)))

\* The `else if (*c->json == ']')` branch: the staged elements become the array.
ArrayClose(c, v, size) ==
  ArrayCopy(lept_context_pop([c EXCEPT !.json = @ + 1], size * SizeofValue), v, size)

RECURSIVE lept_parse_value(_, _)
RECURSIVE ArrayLoop(_, _, _)

\* The separator test reporting a stray character as an invalid value.
ArraySeparator_InvalidValue(c, v, size) ==
  IF Cur(c) = C(",")
  THEN ArrayLoop(lept_parse_whitespace([c EXCEPT !.json = @ + 1]), v, size)
  ELSE IF Cur(c) = C("]")
  THEN ArrayClose(c, v, size)
  ELSE ArrayFail(c, v, size, LEPT_PARSE_INVALID_VALUE)

\* After the element is staged and the white space skipped: the separator.
ArraySeparator(c, v, size) ==
  IF Cur(c) = C(",")
  THEN ArrayLoop(lept_parse_whitespace([c EXCEPT !.json = @ + 1]), v, size)
  ELSE IF Cur(c) = C("]")
  THEN ArrayClose(c, v, size)
  ELSE ArrayFail(c, v, size, LEPT_PARSE_MISS_COMMA_OR_SQUARE_BRACKET)

\* memcpy(lept_context_push(c, sizeof(lept_value)), &e, sizeof(lept_value))
ArrayStage(c, e) ==
  [lept_context_push(c, SizeofValue) EXCEPT !.stack = Poke(@, c.top, ValueCells(e))]

\* The body of the for (;;) once lept_parse_value(c, &e) has returned r.
ArrayElement(r, v, size) ==
  IF r.ret # LEPT_PARSE_OK THEN ArrayFail(r.c, v, size, r.ret)
  ELSE ArraySeparator(lept_parse_whitespace(ArrayStage(r.c, r.v)), v, size + 1)

\* The for (;;) of lept_parse_array with size elements staged.
ArrayLoop(c, v, size) ==
  ArrayElement(lept_parse_value(c, lept_init(FreshValue)), v, size)

\* lept_parse_array after EXPECT(c, '[') and lept_parse_whitespace(c)
ArrayOpened(c, v) ==
  IF Cur(c) = C("]")
  THEN Result([c EXCEPT !.json = @ + 1],
              [v EXCEPT !.type = LEPT_ARRAY, !.len = 0, !.p = 0],
              LEPT_PARSE_OK)
  ELSE ArrayLoop(c, v, 0)

\* lept_parse_array(c, v)
lept_parse_array(c, v) ==
  Returned(ArrayOpened(lept_parse_whitespace(EXPECT(c, C("["))), v), c.top)

\* ------------------------------------------------------------------ parse

\* lept_parse_value(c, v)
lept_parse_value(c, v) ==
  CASE Cur(c) = C("n") -> lept_parse_literal(c, v, Str(<<"n", "u", "l", "l">>), LEPT_NULL)
    [] Cur(c) = C("t") -> lept_parse_literal(c, v, Str(<<"t", "r", "u", "e">>), LEPT_TRUE)
    [] Cur(c) = C("f") -> lept_parse_literal(c, v, Str(<<"f", "a", "l", "s", "e">>), LEPT_FALSE)
    [] Cur(c) = C("[") -> lept_parse_array(c, v)
    [] Cur(c) = C("\"") -> lept_parse_string(c, v)
    [] Cur(c) = NUL -> Result(c, v, LEPT_PARSE_EXPECT_VALUE)
    [] OTHER -> lept_parse_number(c, v)

\* The root left as the value parse typed it.
RootNotSingular_KeepType(r) == Result(r.c, r.v, LEPT_PARSE_ROOT_NOT_SINGULAR)

\* The `if (*c.json != '\0')` of lept_parse, after a value was parsed.
RootNotSingular(r) ==
  Result(r.c, [r.v EXCEPT !.type = LEPT_NULL], LEPT_PARSE_ROOT_NOT_SINGULAR)

\* What lept_parse hands back: the value, the heap and the status, and the
\* context as it is at assert(c.top == 0).
ParseReturn(r) ==
  [v |-> r.v, heap |-> r.c.heap, ret |-> r.ret,
   c |-> [r.c EXCEPT !.asserts = @ /\ r.c.top = 0]]

\* The body of `if ((ret = lept_parse_value(&c, v)) == LEPT_PARSE_OK)`
\* after its lept_parse_whitespace(&c).
ParseEnd(r) ==
  IF Cur(r.c) # NUL THEN ParseReturn(RootNotSingular(r)) ELSE ParseReturn(r)

\* lept_parse once lept_parse_value has returned r
ParseValueReturned(r) ==
  IF r.ret = LEPT_PARSE_OK
  THEN ParseEnd([r EXCEPT !.c = lept_parse_whitespace(@)])
  ELSE ParseReturn(r)

\* lept_parse(v, json)
lept_parse(v, heap, json) ==
  ParseValueReturned(
    lept_parse_value(lept_parse_whitespace([Context(json) EXCEPT !.heap = heap]),
                     lept_init(v)))

\* ------------------------------------------------------------------ the earlier parser

\* src/unnamed/part_000 is an earlier leptjson.c: it has no arrays and no
\* \u escapes, and its own lept_parse_string.  Its context, white space,
\* literal and number functions, lept_set_string and lept_parse are those
\* of src/leptjson.c, line for line.

\* case '\\' of part_000: switch (*p++), with p the character after the
\* backslash.  The break of a simple escape leaves the inner switch only;
\* no break follows the inner switch, so control falls into case '\0'.
Escape_part_000(c, v, head, p) ==
  IF SimpleEscape(At(c.text, p)) # -1
  THEN Result([PUTC(c, SimpleEscape(At(c.text, p))) EXCEPT !.top = head], v,
              LEPT_PARSE_MISS_QUOTATION_MARK)
  ELSE Result([c EXCEPT !.top = head], v, LEPT_PARSE_INVALID_STRING_ESCAPE)

RECURSIVE StringLoop_part_000(_, _, _, _)
\* The for (;;) of part_000's lept_parse_string, with p the next character.
StringLoop_part_000(c, v, head, p) ==
  IF At(c.text, p) = C("\"") THEN StringClose(c, v, head, p + 1)
  ELSE IF At(c.text, p) = C("\\") THEN Escape_part_000(c, v, head, p + 1)
  ELSE IF At(c.text, p) = NUL
  THEN Result([c EXCEPT !.top = head], v, LEPT_PARSE_MISS_QUOTATION_MARK)
  ELSE IF At(c.text, p) < 32
  THEN Result([c EXCEPT !.top = head], v, LEPT_PARSE_INVALID_STRING_CHAR)
  ELSE StringLoop_part_000(PUTC(c, At(c.text, p)), v, head, p + 1)

\* lept_parse_string(c, v) of part_000
lept_parse_string_part_000(c, v) ==
  Returned(StringLoop_part_000(EXPECT(c, C("\"")), v, c.top, c.json + 1), c.top)

\* lept_parse_value(c, v) of part_000
lept_parse_value_part_000(c, v) ==
  CASE Cur(c) = C("n") -> lept_parse_literal(c, v, Str(<<"n", "u", "l", "l">>), LEPT_NULL)
    [] Cur(c) = C("t") -> lept_parse_literal(c, v, Str(<<"t", "r", "u", "e">>), LEPT_TRUE)
    [] Cur(c) = C("f") -> lept_parse_literal(c, v, Str(<<"f", "a", "l", "s", "e">>), LEPT_FALSE)
    [] Cur(c) = C("\"") -> lept_parse_string_part_000(c, v)
    [] Cur(c) = NUL -> Result(c, v, LEPT_PARSE_EXPECT_VALUE)
    [] OTHER -> lept_parse_number(c, v)

\* lept_parse(v, json) of part_000
lept_parse_part_000(v, heap, json) ==
  ParseValueReturned(
    lept_parse_value_part_000(
      lept_parse_whitespace([Context(json) EXCEPT !.heap = heap]), lept_init(v)))

\* ------------------------------------------------------------------ texts

\* The longest run of fragments after the opening bracket of an array text.
MaxArrayFrags == 4

\* The longest run of fragments after the opening quote of a string text.
MaxStringFrags == 3

\* Every sequence of at most n members of S.
SeqsUpTo(S, n) == UNION {[1..k -> S] : k \in 0..n}

RECURSIVE Flatten(_)
Flatten(fs) == IF fs = << >> THEN << >> ELSE Head(fs) \o Flatten(Tail(fs))

\* What follows the '[' of an array text: elements, brackets, separators,
\* white space and a character that starts no value.
ArrayFrags ==
  { Str(<<"1">>), Str(<<"[">>), Str(<<"]">>), Str(<<",">>), Str(<<" ">>),
    Str(<<"\"", "a", "\"">>), Str(<<"x">>) }

ArrayTexts == { Str(<<"[">>) \o Flatten(fs) : fs \in SeqsUpTo(ArrayFrags, MaxArrayFrags) }

\* What follows the opening '"' of a string text: plain bytes, escapes, a
\* control character, the surrogates of U+1D11E, and the pieces escapes are
\* made of.
StringFrags ==
  { Str(<<"a">>), Str(<<"\"">>), Str(<<"SOH">>), Str(<<"\\">>),
    Str(<<"\\", "t">>), Str(<<"\\", "v">>), Str(<<"\\", "u">>),
    Str(<<"\\", "u", "D", "8", "3", "4">>),
    Str(<<"\\", "u", "D", "D", "1", "E">>) }

StringTexts == { Str(<<"\"">>) \o Flatten(fs) : fs \in SeqsUpTo(StringFrags, MaxStringFrags) }

\* The texts of the tests (src/unnamed/part_001) and of the scenarios of the
\* specification, and arrays nested deeper than ArrayTexts reaches.
FixedTexts ==
  { Str(<< >>), Str(<<" ">>), Str(<<"n", "u", "l", "l">>), Str(<<"t", "r", "u", "e">>),
    Str(<<"f", "a", "l", "s", "e">>), Str(<<"n", "u", "l">>), Str(<<"?">>),
    Str(<<"n", "u", "l", "l", " ", "x">>), Str(<<"LF", "TAB", "n", "u", "l", "l", "CR", " ">>),
    Str(<<"t", "r", "u", "e", "LF", "1">>),
    Str(<<"0">>), Str(<<"-", "0">>), Str(<<"1">>), Str(<<"-", "1", ".", "5">>),
    Str(<<"1", "E", "+", "1", "0">>), Str(<<"1", "e", "-", "1", "0">>),
    Str(<<"+", "0">>), Str(<<".", "1", "2", "3">>), Str(<<"1", ".">>), Str(<<"1", "e">>),
    Str(<<"0", "1", "2", "3">>), Str(<<"-">>),
    Str(<<"1", "e", "3", "0", "9">>), Str(<<"-", "1", "e", "3", "0", "9">>),
    Str(<<"1", "e", "3", "0", "8">>), Str(<<"1", "e", "3", "0", "9", " ", "x">>),
    Str(<<"[", "1", "e", "3", "0", "9", "]">>),
    Str(<<"[", "\"", "a", "\"", ",", "1", "e", "3", "0", "9", "]">>),
    Str(<<"\"", "a", "\\", "t", "b", "\"">>),
    Str(<<"\"", "\\", "u", "0", "0", "4", "1", "\"">>),
    Str(<<"\"", "\\", "u", "0", "0", "e", "9", "\"">>),
    Str(<<"\"", "\\", "u", "2", "0", "A", "C", "\"">>),
    Str(<<"\"", "\\", "u", "D", "8", "3", "4", "\\", "u", "D", "D", "1", "E", "\"">>),
    Str(<<"\"", "\\", "u", "D", "8", "3", "4", "\\", "u", "D", "D", "1", "E", "\"", "x">>),
    Str(<<"\"", "\\", "u", "D", "8", "3", "4", "\\", "u", "0", "0", "4", "1", "\"">>),
    Str(<<"\"", "\\", "u", "D", "8", "3", "4", "\\", "u", "D", "D", "1", "G", "\"">>),
    Str(<<"\"", "\\", "u", "D", "8", "3", "4", "\\", "t", "\"">>),
    Str(<<" ", "[", " ", "1", " ", ",", " ", "\"", "a", "\"", " ", "]", " ">>),
    Str(<<"[", "1", ",", "[", "1", ",", "\"", "a", "\"", "]", ",", "\"", "b", "\"", "]">>),
    Str(<<"[", "[", "1", "]", ",", "[", "\"", "a", "\"", ",", "[", "t", "r", "u", "e", "]", "]", "]">>),
    Str(<<"[", "1", ",", "[", "\"", "a", "\"", ",", "[", "\"", "b", "\"", "]", ",", "x">>),
    Str(<<"[", "\"", "a", "\"", ",", "[", "1", ",", "\"", "b", "\"", ",", "\"", "c">>),
    Str(<<"[", "[", "\"", "a", "\"", "]", ",", "\"", "b", "\"", "]", "x">>),
    Str(<<"[", "n", "u", "l", "l", ",", "f", "a", "l", "s", "e", ",", "[", "]", "]">>) }

Texts == ArrayTexts \cup StringTexts \cup FixedTexts

\* The type tag the caller's lept_value holds before lept_parse: the tests
\* pre-set LEPT_FALSE; an object never initialised may hold any tag.
PreTypes == {LEPT_FALSE, LEPT_STRING}

\* ------------------------------------------------------------------ the program

VARIABLES
  text,   \* the text given to lept_parse
  pc,     \* the last call made on v
  v,      \* the caller's lept_value
  heap,   \* the blocks allocated for value content
  ret,    \* the status of the last lept_parse
  ctx,    \* the lept_context of the last lept_parse as it ended
  ops     \* the number of calls made so far

vars == <<text, pc, v, heap, ret, ctx, ops>>

\* What is kept of a lept_context once lept_parse has returned.
Seen(c) == [top |-> c.top, size |-> c.size, asserts |-> c.asserts,
            balanced |-> c.balanced, hw |-> c.hw]

Init ==
  /\ text \in Texts
  /\ pc = "init"
  /\ \E t \in PreTypes : v = [FreshValue EXCEPT !.type = t]
  /\ heap = << >>
  /\ ret = "none"
  /\ ctx = Seen(Context(<< >>))
  /\ ops = 0

\* ret = lept_parse(&v, text)
Parse ==
  /\ pc = "init"
  /\ \E r \in {lept_parse(v, heap, text)} :
        /\ v' = r.v
        /\ heap' = r.heap
        /\ ret' = r.ret
        /\ ctx' = Seen(r.c)
  /\ pc' = "parse"
  /\ ops' = ops + 1
  /\ UNCHANGED text

\* lept_free(&v) after the parse
Free ==
  /\ pc = "parse"
  /\ \E f \in {lept_free(v, heap)} :
        /\ v' = f.v
        /\ heap' = f.heap
  /\ pc' = "free"
  /\ ops' = ops + 1
  /\ UNCHANGED <<text, ret, ctx>>

Next == Parse \/ Free

Spec == Init /\ [][Next]_vars

\* ------------------------------------------------------------------ the earlier parser's runs

\* The longest run of fragments between the opening quote and the end of a
\* simple text.
MaxSimpleFrags == 3

\* What follows the opening '"' of a simple string text: plain bytes, the
\* eight simple escapes, a control byte and a backslash before a character
\* that starts no escape.
SimpleFrags ==
  { Str(<<"a">>), Str(<<"b">>), Str(<<"\"">>), Str(<<"SOH">>),
    Str(<<"\\", "\"">>), Str(<<"\\", "\\">>), Str(<<"\\", "/">>),
    Str(<<"\\", "b">>), Str(<<"\\", "f">>), Str(<<"\\", "n">>),
    Str(<<"\\", "r">>), Str(<<"\\", "t">>), Str(<<"\\", "v">>) }

\* The end of a simple text: the closing '"' or nothing.
SimpleEnds == { Str(<<"\"">>), << >> }

SimpleTexts ==
  { Str(<<"\"">>) \o Flatten(fs) \o end :
      fs \in SeqsUpTo(SimpleFrags, MaxSimpleFrags), end \in SimpleEnds }
  \cup { Str(<<"n", "u", "l", "l">>), Str(<<"t", "r", "u", "e">>),
         Str(<<"f", "a", "l", "s", "e">>), Str(<<"1">>), Str(<<"[", "]">>), Str(<< >>) }

Init_part_000 ==
  /\ text \in SimpleTexts
  /\ pc = "init"
  /\ \E t \in PreTypes : v = [FreshValue EXCEPT !.type = t]
  /\ heap = << >>
  /\ ret = "none"
  /\ ctx = Seen(Context(<< >>))
  /\ ops = 0

\* ret = lept_parse(&v, text), linked with part_000
Parse_part_000 ==
  /\ pc = "init"
  /\ \E r \in {lept_parse_part_000(v, heap, text)} :
        /\ v' = r.v
        /\ heap' = r.heap
        /\ ret' = r.ret
        /\ ctx' = Seen(r.c)
  /\ pc' = "parse"
  /\ ops' = ops + 1
  /\ UNCHANGED text

Next_part_000 == Parse_part_000 \/ Free

Spec_part_000 == Init_part_000 /\ [][Next_part_000]_vars

\* ------------------------------------------------------------------ unicode escapes

\* The hexadecimal digit d written in upper or in lower case.
HexByte(d, lower) == IF d < 10 THEN 48 + d ELSE IF lower THEN 87 + d ELSE 55 + d

\* The escape \uXXXX of the code unit u.
UnicodeEscapeText(u, lower) ==
  <<92, 117, HexByte(u \div 4096, lower), HexByte((u \div 256) % 16, lower),
    HexByte((u \div 16) % 16, lower), HexByte(u % 16, lower)>>

\* Offsets into a surrogate range of 1024 code units: both ends, every
\* single bit, and the offsets of the halves of U+1D11E.
SurrogateOffsets == {0, 1, 2, 4, 8, 16, 32, 52, 64, 128, 256, 286, 512, 1023}

\* Code units outside the surrogate ranges: the ends of the 1-, 2- and
\* 3-byte ranges of UTF-8 and values inside them.
PlainUnits == {0, 36, 65, 127, 128, 162, 233, 2047, 2048, 8364, 55295, 57344, 65535}

\* A string of one escape of a plain code unit, or of a high and a low
\* surrogate.
UnicodeTexts ==
  { <<34>> \o UnicodeEscapeText(u, lower) \o <<34>> :
      u \in PlainUnits, lower \in BOOLEAN }
  \cup
  { <<34>> \o UnicodeEscapeText(55296 + h, lower) \o UnicodeEscapeText(56320 + l, lower)
      \o <<34>> : h \in SurrogateOffsets, l \in SurrogateOffsets, lower \in BOOLEAN }

InitUnicode ==
  /\ text \in UnicodeTexts
  /\ pc = "init"
  /\ \E t \in PreTypes : v = [FreshValue EXCEPT !.type = t]
  /\ heap = << >>
  /\ ret = "none"
  /\ ctx = Seen(Context(<< >>))
  /\ ops = 0

SpecUnicode == InitUnicode /\ [][Next]_vars

\* ------------------------------------------------------------------ numbers, one by one

\* The longest run of fragments of a number text.
MaxNumberFrags == 4

\* The pieces of number texts: signs, digits, the point, the exponent
\* markers, an exponent that reaches past the range of a double with one
\* more digit, and a character no number holds.
NumberFrags ==
  { Str(<<"-">>), Str(<<"+">>), Str(<<"0">>), Str(<<"1">>), Str(<<"9">>),
    Str(<<".">>), Str(<<"e">>), Str(<<"E">>), Str(<<"e", "3", "0">>), Str(<<"x">>) }

NumberTexts == { Flatten(fs) : fs \in SeqsUpTo(NumberFrags, MaxNumberFrags) }

InitNumber ==
  /\ text \in NumberTexts
  /\ pc = "init"
  /\ \E t \in PreTypes : v = [FreshValue EXCEPT !.type = t]
  /\ heap = << >>
  /\ ret = "none"
  /\ ctx = Seen(Context(<< >>))
  /\ ops = 0

SpecNumber == InitNumber /\ [][Next]_vars

\* ------------------------------------------------------------------ one value, many calls

\* The longest sequence of calls made on the value.
MaxOps == 4

\* The texts parsed into the value: a number, a string, arrays that hold
\* strings, and texts whose parse fails after a string was built or staged.
ApiTexts ==
  { Str(<<"1">>), Str(<<"\"", "a", "\"">>), Str(<<"[", "\"", "a", "\"", "]">>),
    Str(<<"\"", "a", "\"", "x">>), Str(<<"[", "\"", "a", "\"", ",", "x">>) }

\* The bytes given to lept_set_string.
ApiStrings == { << >>, Str(<<"a">>) }

\* lept_value v; lept_init(&v);
InitApi ==
  /\ text = << >>
  /\ pc = "init"
  /\ v = lept_init(FreshValue)
  /\ heap = << >>
  /\ ret = "none"
  /\ ctx = Seen(Context(<< >>))
  /\ ops = 0

\* ret = lept_parse(&v, t)
ApiParse ==
  /\ ops < MaxOps
  /\ \E t \in ApiTexts : \E r \in {lept_parse(v, heap, t)} :
        /\ text' = t
        /\ v' = r.v
        /\ heap' = r.heap
        /\ ret' = r.ret
        /\ ctx' = Seen(r.c)
  /\ pc' = "parse"
  /\ ops' = ops + 1

\* lept_free(&v)
ApiFree ==
  /\ ops < MaxOps
  /\ \E f \in {lept_free(v, heap)} :
        /\ v' = f.v
        /\ heap' = f.heap
  /\ pc' = "free"
  /\ ops' = ops + 1
  /\ UNCHANGED <<text, ret, ctx>>

\* lept_set_boolean(&v, b)
ApiSetBoolean ==
  /\ ops < MaxOps
  /\ \E b \in BOOLEAN : \E f \in {lept_set_boolean(v, heap, b)} :
        /\ v' = f.v
        /\ heap' = f.heap
  /\ pc' = "set_boolean"
  /\ ops' = ops + 1
  /\ UNCHANGED <<text, ret, ctx>>

\* lept_set_number(&v, n)
ApiSetNumber ==
  /\ ops < MaxOps
  /\ \E m \in {0, 15} : \E f \in {lept_set_number(v, heap, [neg |-> FALSE, m |-> m, e |-> 0])} :
        /\ v' = f.v
        /\ heap' = f.heap
  /\ pc' = "set_number"
  /\ ops' = ops + 1
  /\ UNCHANGED <<text, ret, ctx>>

\* lept_set_string(&v, s, len)
ApiSetString ==
  /\ ops < MaxOps
  /\ \E b \in ApiStrings : \E f \in {lept_set_string(v, heap, b)} :
        /\ v' = f.v
        /\ heap' = f.heap
  /\ pc' = "set_string"
  /\ ops' = ops + 1
  /\ UNCHANGED <<text, ret, ctx>>

NextApi == ApiParse \/ ApiFree \/ ApiSetBoolean \/ ApiSetNumber \/ ApiSetString

SpecApi == InitApi /\ [][NextApi]_vars

\* ------------------------------------------------------------------ the JSON grammar

\* The grammar the claims speak of, stated on whole texts: it says which
\* byte sequences are a value, and takes no step of the parser.

JsonWhitespace == {32, 9, 10, 13}

IsBlank(s) == \A i \in 1..Len(s) : s[i] \in JsonWhitespace

\* s without its leading and trailing white space.
Trim(s) ==
  LET ink == {i \in 1..Len(s) : s[i] \notin JsonWhitespace}
  IN IF ink = {} THEN << >>
     ELSE SubSeq(s, CHOOSE i \in ink : \A j \in ink : i <= j,
                    CHOOSE i \in ink : \A j \in ink : i >= j)

DigitBytes == 48..57
HexBytes == DigitBytes \cup (65..70) \cup (97..102)
\* " \ / b f n r t
SimpleEscapeBytes == {34, 92, 47, 98, 102, 110, 114, 116}

LiteralTexts ==
  { Str(<<"n", "u", "l", "l">>), Str(<<"t", "r", "u", "e">>),
    Str(<<"f", "a", "l", "s", "e">>) }

\* int = "0" / digit1-9 *digit, on s[a..b-1]
IntPart(s, a, b) ==
  /\ a <= Len(s) /\ b > a /\ b <= Len(s) + 1
  /\ \/ s[a] = 48 /\ b = a + 1
     \/ s[a] \in 49..57 /\ \A i \in (a + 1)..(b - 1) : s[i] \in DigitBytes

\* [ "." 1*digit ], on s[b..c-1]
FracPart(s, b, c) ==
  \/ c = b
  \/ c >= b + 2 /\ c <= Len(s) + 1 /\ s[b] = 46
     /\ \A i \in (b + 1)..(c - 1) : s[i] \in DigitBytes

\* [ ("e" / "E") [ "-" / "+" ] 1*digit ], on s[c..Len(s)]
ExpPart(s, c) ==
  \/ c = Len(s) + 1
  \/ c <= Len(s) /\ s[c] \in {101, 69}
     /\ \E d \in {c + 1, c + 2} :
          /\ d <= Len(s)
          /\ d = c + 2 => s[c + 1] \in {43, 45}
          /\ \A i \in d..Len(s) : s[i] \in DigitBytes

\* number = [ "-" ] int [ frac ] [ exp ]
IsNumberText(s) ==
  /\ s # << >>
  /\ LET a == IF s[1] = 45 THEN 2 ELSE 1
     IN \E b \in (a + 1)..(Len(s) + 1) :
          /\ IntPart(s, a, b)
          /\ \E c \in b..(Len(s) + 1) : FracPart(s, b, c) /\ ExpPart(s, c)

RECURSIVE StringBody(_, _, _)
\* s[i..end] is a run of unescaped characters and escapes.
StringBody(s, i, end) ==
  IF i > end THEN TRUE
  ELSE IF s[i] = 92
  THEN \/ i + 1 <= end /\ s[i + 1] \in SimpleEscapeBytes /\ StringBody(s, i + 2, end)
       \/ /\ i + 5 <= end /\ s[i + 1] = 117
          /\ \A j \in (i + 2)..(i + 5) : s[j] \in HexBytes
          /\ StringBody(s, i + 6, end)
  ELSE s[i] # 34 /\ s[i] >= 32 /\ StringBody(s, i + 1, end)

IsStringText(s) ==
  Len(s) >= 2 /\ s[1] = 34 /\ s[Len(s)] = 34 /\ StringBody(s, 2, Len(s) - 1)

RECURSIVE Split(_, _, _, _, _, _)
\* s cut at the commas that are inside no bracket and no string.
Split(s, i, depth, instr, cur, acc) ==
  IF i > Len(s) THEN Append(acc, cur)
  ELSE IF instr
  THEN IF s[i] = 92 /\ i < Len(s)
       THEN Split(s, i + 2, depth, TRUE, cur \o <<s[i], s[i + 1]>>, acc)
       ELSE Split(s, i + 1, depth, s[i] # 34, Append(cur, s[i]), acc)
  ELSE IF s[i] = 44 /\ depth = 0
  THEN Split(s, i + 1, 0, FALSE, << >>, Append(acc, cur))
  ELSE Split(s, i + 1,
             depth + (IF s[i] = 91 THEN 1 ELSE IF s[i] = 93 THEN -1 ELSE 0),
             s[i] = 34, Append(cur, s[i]), acc)

\* The element texts of the array text s = "[" ... "]", in source order.
ElementTexts(s) ==
  LET inner == SubSeq(s, 2, Len(s) - 1)
  IN IF IsBlank(inner) THEN << >>
     ELSE LET parts == Split(inner, 1, 0, FALSE, << >>, << >>)
          IN [i \in 1..Len(parts) |-> Trim(parts[i])]

RECURSIVE IsValueText(_)
IsValueText(s) ==
  \/ s \in LiteralTexts
  \/ IsNumberText(s)
  \/ IsStringText(s)
  \/ /\ Len(s) >= 2 /\ s[1] = 91 /\ s[Len(s)] = 93
     /\ \A i \in DOMAIN ElementTexts(s) : IsValueText(ElementTexts(s)[i])

\* JSON-text = ws value ws
IsJsonText(s) == IsValueText(Trim(s))

\* What lept_parse returns for a text, from a fresh value and an empty heap.
StatusOf(s) == lept_parse(FreshValue, << >>, s).ret

\* ------------------------------------------------------------------ the stack alone

\* The most calls of lept_context_push and lept_context_pop in one run.
MaxStackOps == 4

\* The sizes pushed: a character, a lept_value, the sizes on either side of
\* the first capacity, and one that takes several steps of growth.
PushSizes ==
  { 1, SizeofValue, LEPT_PARSE_STACK_INIT_SIZE - 1, LEPT_PARSE_STACK_INIT_SIZE,
    LEPT_PARSE_STACK_INIT_SIZE * 2 + 1 }

\* The sizes popped: a character, a lept_value, a string of the first
\* capacity.
PopSizes == { 1, SizeofValue, LEPT_PARSE_STACK_INIT_SIZE }

\* The byte written into the region of the call after ops calls: another
\* one for each call.
PushByte(n) == C("a") + n

\* In these runs text is the region of the last call (the bytes the caller
\* wrote after a push, the bytes a pop gave back), ret the offset of that
\* region in the stack, and ctx the whole context.
InitStack ==
  /\ text = << >>
  /\ pc = "init"
  /\ v = FreshValue
  /\ heap = << >>
  /\ ret = "none"
  /\ ctx = Context(<< >>)
  /\ ops = 0

\* memset(lept_context_push(&c, n), PushByte(ops), n)
StackPush ==
  /\ ops < MaxStackOps
  /\ \E n \in PushSizes :
        /\ text' = [i \in 1..n |-> PushByte(ops)]
        /\ ctx' = [lept_context_push(ctx, n) EXCEPT !.stack = Poke(@, ctx.top, text')]
  /\ ret' = ctx.top
  /\ pc' = "push"
  /\ ops' = ops + 1
  /\ UNCHANGED <<v, heap>>

\* lept_context_pop(&c, n), called as the parser calls it: n <= c.top
StackPop ==
  /\ ops < MaxStackOps
  /\ \E n \in PopSizes :
        /\ ctx.top >= n
        /\ ctx' = lept_context_pop(ctx, n)
        /\ text' = Peek(ctx.stack, ctx.top - n, n)
        /\ ret' = ctx.top - n
  /\ pc' = "pop"
  /\ ops' = ops + 1
  /\ UNCHANGED <<v, heap>>

NextStack == StackPush \/ StackPop

SpecStack == InitStack /\ [][NextStack]_vars

\* ------------------------------------------------------------------ literals, one by one

\* The longest tail after a literal or a part of one.
MaxLiteralTail == 2

\* The letters of the three literals, a letter of none and a space.
LiteralBytes ==
  { C("n"), C("u"), C("l"), C("t"), C("r"), C("e"), C("f"), C("a"), C("s"),
    C("x"), C(" ") }

LiteralTails == SeqsUpTo({C("x"), C(" "), C("l")}, MaxLiteralTail)

\* s with the byte b at position i, when s has a position i.
Replaced(s, i, b) == [j \in 1..Len(s) |-> IF j = i THEN b ELSE s[j]]

\* A literal or a part of one from its start, with at most one byte
\* replaced, and a tail.
NearLiteralTexts ==
  UNION { { Replaced(SubSeq(lit, 1, k), i, b) \o tail :
              k \in 1..Len(lit), i \in 1..6, b \in LiteralBytes, tail \in LiteralTails }
          : lit \in LiteralTexts }

InitLiteral ==
  /\ text \in NearLiteralTexts
  /\ pc = "init"
  /\ \E t \in PreTypes : v = [FreshValue EXCEPT !.type = t]
  /\ heap = << >>
  /\ ret = "none"
  /\ ctx = Seen(Context(<< >>))
  /\ ops = 0

SpecLiteral == InitLiteral /\ [][Next]_vars

\* ------------------------------------------------------------------ claims

ParseReturned == pc = "parse"

AllocatedBlocks == {i \in DOMAIN heap : heap[i].frees = 0}

\* C1: whenever lept_parse returns a status other than LEPT_PARSE_OK,
\* lept_get_type of the root is LEPT_NULL, whatever type tag the root
\* carried before the call.
ErrorLeavesRootNull ==
  ParseReturned /\ ret # LEPT_PARSE_OK => lept_get_type(v) = LEPT_NULL

\* A String root was built (its buffer is block 1) and the call then ended
\* in RootNotSingular with the root Null.
ErrorLeavesRootNull_Witness ==
  /\ ParseReturned /\ ret = LEPT_PARSE_ROOT_NOT_SINGULAR
  /\ v.p = 1 /\ heap[1].kind = "string" /\ lept_get_type(v) = LEPT_NULL

ScratchBalanced ==
  ParseReturned => ctx.top = 0 /\ ctx.balanced /\ ctx.asserts

\* A failed parse that had staged elements of two enclosing arrays and then
\* pushed bytes of a string on top of them.
ScratchBalanced_Witness ==
  /\ ParseReturned /\ ret = LEPT_PARSE_MISS_QUOTATION_MARK
  /\ ctx.hw > 2 * SizeofValue /\ ctx.top = 0

\* C4: when lept_parse returns a status other than LEPT_PARSE_OK, no heap
\* block allocated for value content during the call is still allocated;
\* a String or Array root built before RootNotSingular is released.
FailedParseHoldsNoBlock ==
  ParseReturned /\ ret # LEPT_PARSE_OK => AllocatedBlocks = {}

\* The first byte of the text that is not white space.
FirstByte(s) == IF IsBlank(s) THEN NUL ELSE Trim(s)[1]

\* C5: when the parse of an array fails (an element's parse returned an
\* error, or an element was followed by a character other than ',' and
\* ']'), every element staged so far is destroyed with the content it owns,
\* recursively: no block allocated for a staged String, a staged nested
\* Array or that array's children is still allocated when the error returns.
FailedArrayDestroysStaged ==
  ( /\ ParseReturned /\ FirstByte(text) = 91
    /\ ret \notin {LEPT_PARSE_OK, LEPT_PARSE_ROOT_NOT_SINGULAR} )
  => AllocatedBlocks = {}

\* C6: after a successful lept_parse and lept_free of the root, no block
\* allocated for the value tree is still allocated: a String's buffer, an
\* Array's storage and the content of every child, recursively.
FreeReleasesTree ==
  pc = "free" /\ ret = LEPT_PARSE_OK => AllocatedBlocks = {}

\* The value of the hexadecimal digit byte b.
HexValue(b) == IF b \in DigitBytes THEN b - 48 ELSE IF b \in 65..70 THEN b - 55 ELSE b - 87

\* s[i..i+5] is a \u escape: a backslash, 'u' and four hexadecimal digits.
IsUnicodeEscape(s, i) ==
  /\ i + 5 <= Len(s) /\ s[i] = 92 /\ s[i + 1] = 117
  /\ \A j \in (i + 2)..(i + 5) : s[j] \in HexBytes

\* The code unit of the \u escape at s[i..i+5].
CodeUnit(s, i) ==
  4096 * HexValue(s[i + 2]) + 256 * HexValue(s[i + 3])
    + 16 * HexValue(s[i + 4]) + HexValue(s[i + 5])

RECURSIVE HasLoneSurrogate(_, _)
\* The string whose body starts at s[i] holds, before its closing quote, a
\* \u escape of a high surrogate that no \u escape of a low surrogate
\* follows at once, or a \u escape of a low surrogate that follows no high
\* one.
HasLoneSurrogate(s, i) ==
  IF i > Len(s) \/ s[i] = 34 THEN FALSE
  ELSE IF s[i] # 92 THEN HasLoneSurrogate(s, i + 1)
  ELSE IF ~IsUnicodeEscape(s, i) THEN HasLoneSurrogate(s, i + 2)
  ELSE IF CodeUnit(s, i) \in 55296..56319
  THEN IF IsUnicodeEscape(s, i + 6) /\ CodeUnit(s, i + 6) \in 56320..57343
       THEN HasLoneSurrogate(s, i + 12)
       ELSE TRUE
  ELSE IF CodeUnit(s, i) \in 56320..57343 THEN TRUE
  ELSE HasLoneSurrogate(s, i + 6)

\* C10: a string with a lone surrogate escape (a high surrogate not followed
\* at once by a low surrogate's escape, or a low surrogate that is not the
\* second half of a pair) never parses to Ok: lept_parse returns an error
\* status and the root is Null.
LoneSurrogateRejected ==
  ParseReturned /\ FirstByte(text) = 34 /\ text[1] = 34 /\ HasLoneSurrogate(text, 2)
  => ret # LEPT_PARSE_OK /\ lept_get_type(v) = LEPT_NULL

\* C7: lept_free is idempotent.  After lept_free(v) the type of v is Null,
\* whatever it was before; a further lept_free(v) releases nothing and
\* leaves v as it is, Null; and over any sequence of lept_parse, lept_set_*
\* and lept_free calls on one value, no heap block is released twice.
FreeIdempotent ==
  /\ pc = "free" =>
       /\ lept_get_type(v) = LEPT_NULL
       /\ lept_free(v, heap) = [v |-> v, heap |-> heap]
  /\ \A i \in DOMAIN heap : heap[i].frees <= 1

\* lept_free has just released the buffer of a String that lept_set_string
\* or lept_parse had given the value, after an earlier call on the value.
FreeIdempotent_Witness ==
  /\ pc = "free" /\ ops >= 3
  /\ v.p # 0 /\ heap[v.p].kind = "string" /\ heap[v.p].frees = 1
  /\ lept_get_type(v) = LEPT_NULL

RECURSIVE OpenBrackets(_, _, _, _)
\* The number of brackets s[i..] opens outside strings and does not close,
\* added to depth.
OpenBrackets(s, i, instr, depth) ==
  IF i > Len(s) THEN depth
  ELSE IF instr
  THEN IF s[i] = 92 THEN OpenBrackets(s, i + 2, TRUE, depth)
       ELSE OpenBrackets(s, i + 1, s[i] # 34, depth)
  ELSE OpenBrackets(s, i + 1, s[i] = 34,
                    depth + (IF s[i] = 91 THEN 1 ELSE IF s[i] = 93 THEN -1 ELSE 0))

\* n closing brackets.
Closing(n) == [i \in 1..n |-> 93]

\* s[1..k] ends with an element of an array that is still open: closing
\* the open arrays there gives a text lept_parse accepts, and its last byte
\* is neither white space nor the bracket that opened the array.
ElementEndsAt(s, k) ==
  /\ s[k] \notin JsonWhitespace \cup {91}
  /\ OpenBrackets(SubSeq(s, 1, k), 1, FALSE, 0) >= 1
  /\ StatusOf(SubSeq(s, 1, k) \o Closing(OpenBrackets(SubSeq(s, 1, k), 1, FALSE, 0)))
       = LEPT_PARSE_OK

RECURSIVE NextByte(_, _)
\* The first byte of s from s[i] on that is not white space; NUL at the end.
NextByte(s, i) ==
  IF i > Len(s) THEN NUL
  ELSE IF s[i] \in JsonWhitespace THEN NextByte(s, i + 1)
  ELSE s[i]

\* An element ends at s[k] and what follows it, after optional white space,
\* is neither ',' nor ']' (nor a byte that continues the element's number).
StrayAfterElement(s, k) ==
  /\ ElementEndsAt(s, k)
  /\ NextByte(s, k + 1) \notin {44, 93}
  /\ ~(s[k] \in DigitBytes /\ At(s, k + 1) \in DigitBytes \cup {46, 101, 69})

\* An element ends at or before s[k - 1], s[k] is the comma after it and
\* the closing bracket follows the comma directly.
TrailingComma(s, k) ==
  /\ k >= 2 /\ k < Len(s) /\ s[k] = 44 /\ s[k + 1] = 93
  /\ \E j \in 1..(k - 1) :
       ElementEndsAt(s, j) /\ IsBlank(SubSeq(s, j + 1, k - 1))

\* C8 as stated: a parsed element followed, after optional white space, by
\* a character other than ',' and ']' is reported as
\* MissCommaOrSquareBracket, and so is an array whose last comma is
\* directly followed by the closing bracket, as in "[1,]".
MalformedArrayReported ==
  ParseReturned =>
    \A k \in 1..Len(text) :
      StrayAfterElement(text, k) \/ TrailingComma(text, k)
        => ret = LEPT_PARSE_MISS_COMMA_OR_SQUARE_BRACKET

\* C8, amended: a parsed element followed, after optional white space, by a
\* character other than ',' and ']' is reported as MissCommaOrSquareBracket;
\* an array whose last comma is directly followed by the closing bracket,
\* as in "[1,]", is reported as InvalidValue.
MalformedArrayReported_Amended ==
  ParseReturned =>
    \A k \in 1..Len(text) :
      /\ StrayAfterElement(text, k) => ret = LEPT_PARSE_MISS_COMMA_OR_SQUARE_BRACKET
      /\ TrailingComma(text, k) => ret = LEPT_PARSE_INVALID_VALUE

\* "[1,]" parsed: the comma of the element 1 is followed by the bracket.
MalformedArrayReported_Witness ==
  /\ ParseReturned /\ text = Str(<<"[", "1", ",", "]">>)
  /\ TrailingComma(text, 3)
  /\ ret = LEPT_PARSE_INVALID_VALUE

RECURSIVE Abs(_, _)
\* The document a value stands for, read through the accessors: its type,
\* and the number, the bytes or the elements the type selects.
Abs(val, h) ==
  [type |-> lept_get_type(val),
   n |-> IF val.type = LEPT_NUMBER THEN val.n ELSE NoNumber,
   bytes |-> IF val.type = LEPT_STRING THEN SubSeq(h[val.p].data, 1, val.len) ELSE << >>,
   elems |-> IF val.type = LEPT_ARRAY
             THEN [i \in 1..lept_get_array_size(val) |->
                     Abs(lept_get_array_element(val, h, i - 1), h)]
             ELSE << >>]

\* What parsing the text s alone gives, from a fresh value and an empty heap.
AbsParsed(r) == Abs(r.v, r.heap)
ParsedAlone(s) == AbsParsed(lept_parse(FreshValue, << >>, s))

RECURSIVE ArrayAsWritten(_, _, _)
\* The Array val was parsed from the text s = "[" ... "]": it has as many
\* elements as s has element texts at its own level, each is what its text
\* parses to alone, an array of no element has no storage, and the same
\* holds of every element that is an Array.
ArrayAsWritten(val, h, s) ==
  /\ lept_get_array_size(val) = Len(ElementTexts(s))
  /\ Len(ElementTexts(s)) = 0 => val.p = 0
  /\ \A i \in 1..Len(ElementTexts(s)) :
       /\ Abs(lept_get_array_element(val, h, i - 1), h) = ParsedAlone(ElementTexts(s)[i])
       /\ lept_get_type(lept_get_array_element(val, h, i - 1)) = LEPT_ARRAY
            => ArrayAsWritten(lept_get_array_element(val, h, i - 1), h, ElementTexts(s)[i])

\* C9: after a successful parse of an array, lept_get_array_size is the
\* number of comma-separated elements at the array's own level and
\* lept_get_array_element(i) is the i-th element in source order, equal to
\* what parsing that element's text alone gives; the same holds of nested
\* arrays; an array with only white space between its brackets has size 0
\* and no backing allocation.
ArrayElementsInOrder ==
  ParseReturned /\ ret = LEPT_PARSE_OK /\ lept_get_type(v) = LEPT_ARRAY =>
    /\ ArrayAsWritten(v, heap, Trim(text))
    /\ lept_get_array_size(v) = 0 => heap = << >>

\* [1,[1,"a"],"b"]: the inner array staged its two elements above the
\* element the outer array had staged.
ArrayElementsInOrder_Witness ==
  /\ ParseReturned /\ ret = LEPT_PARSE_OK
  /\ text = Str(<<"[", "1", ",", "[", "1", ",", "\"", "a", "\"", "]", ",", "\"", "b", "\"", "]">>)
  /\ lept_get_array_size(v) = 3
  /\ lept_get_array_size(lept_get_array_element(v, heap, 1)) = 2
  /\ Abs(lept_get_array_element(v, heap, 2), heap).bytes = Str(<<"b">>)

\* The standard UTF-8 encoding of the code point cp.
StdUtf8(cp) ==
  IF cp < 128 THEN <<cp>>
  ELSE IF cp < 2048 THEN <<192 + (cp \div 64), 128 + (cp % 64)>>
  ELSE IF cp < 65536
  THEN <<224 + (cp \div 4096), 128 + ((cp \div 64) % 64), 128 + (cp % 64)>>
  ELSE <<240 + (cp \div 262144), 128 + ((cp \div 4096) % 64),
         128 + ((cp \div 64) % 64), 128 + (cp % 64)>>

\* The bytes of the String root.
RootBytes == SubSeq(heap[v.p].data, 1, v.len)

\* The code point of the pair of a high surrogate hi and a low surrogate lo.
PairCodePoint(hi, lo) == (hi - 55296) * 1024 + (lo - 56320) + 65536

\* C11: a string of the escapes of a high surrogate H and of a low
\* surrogate L parses to the 4 standard UTF-8 bytes of the code point
\* ((H - 0xD800) << 10 | (L - 0xDC00)) + 0x10000, which is within
\* 0x10000..0x10FFFF, and no assert of the encoder fails; a string of one
\* escape of a code unit that is no surrogate parses to the standard 1, 2
\* or 3 bytes of the code unit.
UnicodeEscapesEncoded ==
  ParseReturned /\ Len(text) \in {8, 14} /\ text[1] = 34 /\ text[Len(text)] = 34 =>
    /\ ( /\ Len(text) = 14 /\ IsUnicodeEscape(text, 2) /\ IsUnicodeEscape(text, 8)
         /\ CodeUnit(text, 2) \in 55296..56319 /\ CodeUnit(text, 8) \in 56320..57343 )
       => /\ ret = LEPT_PARSE_OK /\ lept_get_type(v) = LEPT_STRING /\ ctx.asserts
          /\ PairCodePoint(CodeUnit(text, 2), CodeUnit(text, 8)) \in 65536..1114111
          /\ RootBytes = StdUtf8(PairCodePoint(CodeUnit(text, 2), CodeUnit(text, 8)))
          /\ Len(RootBytes) = 4
    /\ ( /\ Len(text) = 8 /\ IsUnicodeEscape(text, 2)
         /\ CodeUnit(text, 2) \notin 55296..57343 )
       => /\ ret = LEPT_PARSE_OK /\ lept_get_type(v) = LEPT_STRING /\ ctx.asserts
          /\ RootBytes = StdUtf8(CodeUnit(text, 2))
          /\ Len(RootBytes) \in 1..3

\* "𝄞" parsed to F0 9D 84 9E.
UnicodeEscapesEncoded_Witness ==
  /\ ParseReturned /\ ret = LEPT_PARSE_OK
  /\ text = <<34>> \o UnicodeEscapeText(55348, FALSE) \o UnicodeEscapeText(56606, FALSE) \o <<34>>
  /\ RootBytes = <<240, 157, 132, 158>>

RECURSIVE FirstOffence(_, _)
\* What a left-to-right reading of the string whose body starts at s[i]
\* meets first: "closed" for the closing quote, the status of the first
\* offending position, or "surrogate" for a high surrogate without its low
\* one.
FirstOffence(s, i) ==
  IF i > Len(s) THEN LEPT_PARSE_MISS_QUOTATION_MARK
  ELSE IF s[i] = 34 THEN "closed"
  ELSE IF s[i] < 32 THEN LEPT_PARSE_INVALID_STRING_CHAR
  ELSE IF s[i] # 92 THEN FirstOffence(s, i + 1)
  ELSE IF i + 1 > Len(s) THEN LEPT_PARSE_INVALID_STRING_ESCAPE
  ELSE IF s[i + 1] \in SimpleEscapeBytes THEN FirstOffence(s, i + 2)
  ELSE IF s[i + 1] # 117 THEN LEPT_PARSE_INVALID_STRING_ESCAPE
  ELSE IF ~IsUnicodeEscape(s, i) THEN LEPT_PARSE_INVALID_UNICODE_HEX
  ELSE IF CodeUnit(s, i) \notin 55296..56319 THEN FirstOffence(s, i + 6)
  ELSE IF ~(At(s, i + 6) = 92 /\ At(s, i + 7) = 117) THEN "surrogate"
  ELSE IF ~IsUnicodeEscape(s, i + 6) THEN LEPT_PARSE_INVALID_UNICODE_HEX
  ELSE IF CodeUnit(s, i + 6) \notin 56320..57343 THEN "surrogate"
  ELSE FirstOffence(s, i + 12)

\* C12: in a string read left to right the first offending position
\* decides the status: a raw byte below 0x20 gives InvalidStringChar, the
\* end of the text before the closing quote MissQuotationMark, a backslash
\* followed by a character that starts no escape (the end of the text
\* included) InvalidStringEscape, and a \u whose next 4 characters are not
\* all hexadecimal digits InvalidUnicodeHex; no String is produced.
FirstOffenceDecides ==
  ( /\ ParseReturned /\ Len(text) >= 1 /\ text[1] = 34
    /\ FirstOffence(text, 2) \in
         {LEPT_PARSE_INVALID_STRING_CHAR, LEPT_PARSE_MISS_QUOTATION_MARK,
          LEPT_PARSE_INVALID_STRING_ESCAPE, LEPT_PARSE_INVALID_UNICODE_HEX} )
  => /\ ret = FirstOffence(text, 2)
     /\ lept_get_type(v) = LEPT_NULL
     /\ heap = << >>

\* A valid escape, then a backslash at the end of the text.
FirstOffenceDecides_Witness ==
  /\ ParseReturned /\ text = Str(<<"\"", "\\", "t", "\\">>)
  /\ ret = LEPT_PARSE_INVALID_STRING_ESCAPE /\ ctx.hw = 1

RECURSIVE SimpleBody(_, _, _)
\* s[i..end] is a run of bytes of 0x20 or above and of simple escapes.
SimpleBody(s, i, end) ==
  IF i > end THEN TRUE
  ELSE IF s[i] = 92
  THEN i + 1 <= end /\ s[i + 1] \in SimpleEscapeBytes /\ SimpleBody(s, i + 2, end)
  ELSE s[i] # 34 /\ s[i] >= 32 /\ SimpleBody(s, i + 1, end)

\* A string text with no \u escape.
IsSimpleStringText(s) ==
  Len(s) >= 2 /\ s[1] = 34 /\ s[Len(s)] = 34 /\ SimpleBody(s, 2, Len(s) - 1)

\* The character the simple escape of the byte b stands for.
EscapedByte(b) ==
  CASE b = 98 -> 8 [] b = 102 -> 12 [] b = 110 -> 10 [] b = 114 -> 13
    [] b = 116 -> 9 [] OTHER -> b

RECURSIVE SimpleDecoded(_, _)
\* The bytes the simple string text s stands for, from s[i] on: one byte
\* per simple escape, every other byte as it is.
SimpleDecoded(s, i) ==
  IF i >= Len(s) THEN << >>
  ELSE IF s[i] = 92 THEN <<EscapedByte(s[i + 1])>> \o SimpleDecoded(s, i + 2)
  ELSE <<s[i]>> \o SimpleDecoded(s, i + 1)

\* The document of a String of the bytes b.
StringDocument(b) == [type |-> LEPT_STRING, n |-> NoNumber, bytes |-> b, elems |-> << >>]

\* C13: in a string each simple escape appends one byte, the escaped
\* character, and the scan goes on with the next character; every other
\* byte of 0x20 or above is appended as it is; the String's length is the
\* number of bytes appended.  This holds of the string parser of
\* src/leptjson.c and of the one of src/unnamed/part_000 (whose parse is
\* the one in the state).
SimpleEscapesAppended ==
  ParseReturned /\ IsSimpleStringText(text) =>
    /\ ParsedAlone(text) = StringDocument(SimpleDecoded(text, 2))
    /\ ret = LEPT_PARSE_OK /\ lept_get_type(v) = LEPT_STRING
    /\ v.len = Len(SimpleDecoded(text, 2))
    /\ RootBytes = SimpleDecoded(text, 2)

RECURSIVE DigitsEnd(_, _)
\* The first position from i on that holds no digit.
DigitsEnd(s, i) == IF At(s, i) \in DigitBytes THEN DigitsEnd(s, i + 1) ELSE i

\* The position after the optional '-' of s.
SignEnd(s) == IF At(s, 1) = 45 THEN 2 ELSE 1

\* The position after the integer part of s: a single 0, or a run of digits.
IntEnd(s) == IF At(s, SignEnd(s)) = 48 THEN SignEnd(s) + 1 ELSE DigitsEnd(s, SignEnd(s))

\* The position after the fraction of s, when it has one.
FracEnd(s) == IF At(s, IntEnd(s)) = 46 THEN DigitsEnd(s, IntEnd(s) + 1) ELSE IntEnd(s)

\* The position the digits of the exponent of s are due at.
ExpDigitsAt(s) == IF At(s, FracEnd(s) + 1) \in {43, 45} THEN FracEnd(s) + 2 ELSE FracEnd(s) + 1

\* After the optional '-' the next character is not a digit.
NoLeadingDigit(s) == At(s, SignEnd(s)) \notin DigitBytes

\* The '.' after the integer part is not followed by a digit.
BareDot(s) == At(s, IntEnd(s)) = 46 /\ At(s, IntEnd(s) + 1) \notin DigitBytes

\* The 'e' or 'E', with its optional sign, is not followed by a digit.
BareExponent(s) == At(s, FracEnd(s)) \in {101, 69} /\ At(s, ExpDigitsAt(s)) \notin DigitBytes

\* lept_parse hands the text s to the number parser as it is.
NumberDispatched(s) ==
  Len(s) >= 1 /\ s[1] \notin JsonWhitespace \cup {110, 116, 102, 34, 91}

\* C14: the number parser returns InvalidValue and produces no Number, and
\* lept_parse leaves the root Null, for every text in which the character
\* after the optional '-' is not a digit, or the '.' is not followed by a
\* digit, or the 'e' or 'E' with its optional sign is not followed by a
\* digit.
MalformedNumberRejected ==
  NoLeadingDigit(text) \/ BareDot(text) \/ BareExponent(text) =>
    /\ lept_parse_number(Context(text), FreshValue).ret = LEPT_PARSE_INVALID_VALUE
    /\ lept_parse_number(Context(text), FreshValue).v = FreshValue
    /\ ParseReturned /\ NumberDispatched(text) =>
         /\ ret = LEPT_PARSE_INVALID_VALUE
         /\ lept_get_type(v) = LEPT_NULL
         /\ heap = << >>

\* A parse has rejected a number for its exponent alone.
MalformedNumberRejected_Witness ==
  /\ ParseReturned /\ NumberDispatched(text)
  /\ ~NoLeadingDigit(text) /\ ~BareDot(text) /\ BareExponent(text)
  /\ At(text, IntEnd(text)) = 46
  /\ ret = LEPT_PARSE_INVALID_VALUE

\* After the optional '-', s has a 0 and then a digit.
LeadingZeroDigits(s) ==
  At(s, SignEnd(s)) = 48 /\ At(s, SignEnd(s) + 1) \in DigitBytes

\* After the optional '-', s is digits to its end.
DigitsToEnd(s) == DigitsEnd(s, SignEnd(s)) = Len(s) + 1

LiteralType(lit) ==
  CASE lit[1] = 110 -> LEPT_NULL [] lit[1] = 116 -> LEPT_TRUE [] OTHER -> LEPT_FALSE

\* The first position of s that differs from lit, the terminator counted,
\* or 0 when s starts with lit.
FirstMismatch(s, lit) ==
  IF \A i \in 1..Len(lit) : At(s, i) = lit[i] THEN 0
  ELSE CHOOSE i \in 1..Len(lit) :
         At(s, i) # lit[i] /\ \A j \in 1..(i - 1) : At(s, j) = lit[j]

\* A value of a type no literal gives, handed to the literal parser.
Untouched == [FreshValue EXCEPT !.type = LEPT_NUMBER]

\* C16: the literal parser accepts exactly null, true and false.  On a full
\* match the cursor moves on by the literal's length and the type is the
\* literal's; at the first character that differs, the terminator
\* included, the parser returns InvalidValue with the type not set and the
\* scan stopped at that character.  lept_parse returns Ok on a text that
\* starts with n, t or f only when the text is a literal and white space.
LiteralsExact ==
  \A lit \in LiteralTexts : At(text, 1) = lit[1] =>
    /\ FirstMismatch(text, lit) = 0 =>
         /\ lept_parse_literal(Context(text), Untouched, lit, LiteralType(lit)).ret
              = LEPT_PARSE_OK
         /\ lept_parse_literal(Context(text), Untouched, lit, LiteralType(lit)).c.json
              = 1 + Len(lit)
         /\ lept_parse_literal(Context(text), Untouched, lit, LiteralType(lit)).v.type
              = LiteralType(lit)
         /\ ParseReturned /\ ret = LEPT_PARSE_OK => lept_get_type(v) = LiteralType(lit)
    /\ FirstMismatch(text, lit) # 0 =>
         /\ lept_parse_literal(Context(text), Untouched, lit, LiteralType(lit)).ret
              = LEPT_PARSE_INVALID_VALUE
         /\ lept_parse_literal(Context(text), Untouched, lit, LiteralType(lit)).v
              = Untouched
         /\ LiteralScan(EXPECT(Context(text), lit[1]), lit, 0)
              = FirstMismatch(text, lit) - 2
         /\ ParseReturned =>
              ret = LEPT_PARSE_INVALID_VALUE /\ lept_get_type(v) = LEPT_NULL
    /\ ParseReturned => (ret = LEPT_PARSE_OK <=> Trim(text) = lit)

\* A parse has returned on a literal cut short by the end of the text.
LiteralsExact_Witness ==
  /\ ParseReturned
  /\ \E lit \in LiteralTexts :
       Len(text) < Len(lit) /\ Len(text) >= 2 /\ FirstMismatch(text, lit) = Len(text) + 1
  /\ ret = LEPT_PARSE_INVALID_VALUE

\* The position after the exponent of s, when it has one: the end of what
\* the number grammar matches.
MatchedEnd(s) ==
  IF At(s, FracEnd(s)) \in {101, 69} THEN DigitsEnd(s, ExpDigitsAt(s)) ELSE FracEnd(s)

\* The characters of s the number grammar matches.
Matched(s) == SubSeq(s, 1, MatchedEnd(s) - 1)

\* C17: after a successful validation the conversion is applied to the
\* matched characters alone.  NumberTooBig is returned exactly when the
\* conversion of the matched characters overflows, and then the type is not
\* Number and the cursor has not moved; otherwise the value is the
\* conversion of the matched characters, the type is Number and the cursor
\* has moved by the length of the match.  What follows the match in the text
\* changes none of this.
ConversionOfMatch ==
  ~(NoLeadingDigit(text) \/ BareDot(text) \/ BareExponent(text)) =>
    /\ strtod(Matched(text), 1).huge =>
         /\ lept_parse_number(Context(text), FreshValue).ret = LEPT_PARSE_NUMBER_TOO_BIG
         /\ lept_parse_number(Context(text), FreshValue).v.type = LEPT_NULL
         /\ lept_parse_number(Context(text), FreshValue).c.json = 1
         /\ ParseReturned /\ NumberDispatched(text) =>
              ret = LEPT_PARSE_NUMBER_TOO_BIG /\ lept_get_type(v) = LEPT_NULL
    /\ ~strtod(Matched(text), 1).huge =>
         /\ lept_parse_number(Context(text), FreshValue).ret = LEPT_PARSE_OK
         /\ lept_parse_number(Context(text), FreshValue).v.type = LEPT_NUMBER
         /\ lept_parse_number(Context(text), FreshValue).v.n = strtod(Matched(text), 1).n
         /\ lept_parse_number(Context(text), FreshValue).c.json = MatchedEnd(text)
         /\ ParseReturned /\ NumberDispatched(text) => ret # LEPT_PARSE_NUMBER_TOO_BIG

RECURSIVE GrownTo(_, _)
\* n is size after zero or more steps of size += size / 2.
GrownTo(size, n) ==
  IF size >= n THEN size = n ELSE GrownTo(size + (size \div 2), n)

\* C18: after every lept_context_push(c, n) with n > 0, among any pushes
\* and pops: top has grown by n; the region returned starts at the old top
\* and ends below the capacity (top < size); the bytes below the old top
\* are as they were; the capacity is 256 grown by steps of size += size / 2,
\* has grown only when the old top + n reached the old capacity, and is
\* never smaller after a call than before it.
PushGrowsStack ==
  [][ /\ ctx'.size >= ctx.size
      /\ pc' = "push" =>
           /\ Len(text') > 0
           /\ ctx'.top = ctx.top + Len(text')
           /\ ret' = ctx.top
           /\ ctx'.top < ctx'.size
           /\ \A i \in 1..ctx.top : ctx'.stack[i] = ctx.stack[i]
           /\ GrownTo(LEPT_PARSE_STACK_INIT_SIZE, ctx'.size)
           /\ ctx'.size # ctx.size => ctx.top + Len(text') >= ctx.size
           /\ ctx'.asserts ]_vars

\* A push that took several steps of growth, onto bytes of earlier calls,
\* after a pop.
PushGrowsStack_Witness ==
  /\ pc = "push" /\ ops = MaxStackOps
  /\ ret > 0 /\ ret + Len(text) = ctx.top
  /\ ctx.size > LEPT_PARSE_STACK_INIT_SIZE + (LEPT_PARSE_STACK_INIT_SIZE \div 2)
  /\ ctx.hw > ctx.top
  /\ \E i \in 1..ret : ctx.stack[i] # ctx.stack[ctx.top]

====
